---------------------------- MODULE Spec2Model ----------------------------
(***************************************************************************)
(* Collision core of Aspace: UniformGrid (world.hpp), ConvexPolygon,       *)
(* CollisionShape and the SAT functions of CollisionSystem                 *)
(* (collisionshapes.cpp), Entity (entity.hpp / entity.cpp) and the         *)
(* per-frame loop World::update (world.hpp).                               *)
(*                                                                         *)
(* Numbers.  A C++ float is modelled as an integer count of 1/Unit world   *)
(* units (fixed point).  The inputs the specifications draw are chosen so  *)
(* that every product, quotient and square root the code takes on them is  *)
(* exact at this resolution (axis-aligned and 3-4-5 edges, rotations by    *)
(* multiples of 90 degrees); only the edge normals of the dreadnaught hull  *)
(* in the World specifications are rounded to it.  A C++ int (cell         *)
(* indices, WORLD_W, CELL_SIZE) is a plain integer of world units.  The    *)
(* IEEE values the code can                                                *)
(* produce outside the finite range (the initial +infinity overlap and     *)
(* 0 * infinity = NaN) are modelled by the flag "finite" of a result.      *)
(***************************************************************************)
EXTENDS Integers, Sequences, FiniteSets, TLC

VARIABLES
    buckets,    \* UniformGrid::buckets : cell index -> sequence of Entity*
    gridLog,    \* SpecGrid: the last grid call [op, e, box] and what a query visited
    live,       \* SpecGrid: per entity, the boxes inserted since its last remove
    trip,       \* SpecGrid: an insert(e, box) of an absent e followed by remove(e, box)
    nOps,       \* SpecGrid: number of insert/remove calls made
    polygon,       \* SpecPoly: one ConvexPolygon
    polyLog,    \* SpecPoly: the last transform call, its arguments and the polygon before it
    shpA,     \* SpecSAT: CollisionShape::polygons of the first shape
    shpB,     \* SpecSAT: CollisionShape::polygons of the second shape
    outMtv,        \* SpecSAT: the caller's out-parameter mtv
    satLog,     \* SpecSAT: the last check, its operands, result and mtv before the call
    entities,   \* World::entities : sequence of Entity objects
    grid,       \* World::grid.buckets
    queries,    \* World: the grid.query calls of the last update
    calls,      \* World: the CheckShapesCollide calls of the last update
    nWorldOps,  \* World: number of update and teleport calls made
    trace,      \* World: the steps of the last update, in the order they ran
    worldLog,   \* World: the last call [op, ...]
    overlapLog  \* SpecOverlap: the last GetOverlap call, its arguments and result

gridVars == <<buckets, gridLog, live, trip, nOps>>
polyVars == <<polygon, polyLog>>
satVars == <<shpA, shpB, outMtv, satLog>>
worldVars == <<entities, grid, queries, calls, trace, nWorldOps, worldLog>>
overlapVars == <<overlapLog>>

vars == <<buckets, gridLog, live, trip, nOps, polygon, polyLog, shpA, shpB, outMtv, satLog,
          entities, grid, queries, calls, trace, nWorldOps, worldLog, overlapLog>>

---------------------------------------------------------------------------
(* Numeric helpers                                                         *)

\* Fixed-point resolution: floats are counted in 1/Unit, so the 1e-3f
\* tolerance of CheckSATCollision is Tol units and 0.0005 is one unit.
Unit == 2000

\* C++ integer division and float-to-int conversion truncate toward zero.
TruncDiv(a, b) == IF a >= 0 THEN a \div b ELSE -((-a) \div b)

\* std::clamp(v, lo, hi)
Clamp(v, lo, hi) == IF v < lo THEN lo ELSE IF hi < v THEN hi ELSE v

Min2(a, b) == IF b < a THEN b ELSE a
Max2(a, b) == IF a < b THEN b ELSE a

Range(s) == { s[i] : i \in 1..Len(s) }

Rect(x, y, w, h) == [x |-> x, y |-> y, width |-> w, height |-> h]

---------------------------------------------------------------------------
(* UniformGrid                                                             *)

\* World extent and cell size in world units (scaled down from 16384, 8192, 512).
WORLD_W == 12
WORLD_H == 8
CELL_SIZE == 4

cs == CELL_SIZE
cols == (WORLD_W + CELL_SIZE - 1) \div CELL_SIZE
rows == (WORLD_H + CELL_SIZE - 1) \div CELL_SIZE
Cells == 0 .. (cols * rows - 1)

\* int(f / cs) for a float f (in 1/Unit) and the int cs.
CellOf(f) == TruncDiv(f, cs * Unit)

\* UniformGrid::visitCells: the bucket indices handed to fn, in call order.
MutVisitCellsExclusiveMax(r) ==
    LET minX == Clamp(CellOf(r.x), 0, cols - 1)
        minY == Clamp(CellOf(r.y), 0, rows - 1)
        maxX == Clamp(CellOf(r.x + r.width), 0, cols - 1)
        maxY == Clamp(CellOf(r.y + r.height), 0, rows - 1)
        nx == maxX - minX
        ny == maxY - minY
    IN  [k \in 1 .. (nx * ny) |->
            (minY + ((k - 1) \div nx)) * cols + (minX + ((k - 1) % nx))]

MutVisitCellsNoClamp(r) ==
    LET minX == Clamp(CellOf(r.x), 0, cols - 1)
        minY == Clamp(CellOf(r.y), 0, rows - 1)
        maxX == Clamp(CellOf(r.x + r.width), 0, cols - 1)
        maxY == Clamp(CellOf(r.y + r.height), 0, rows - 1)
        nx == maxX - minX + 1
        ny == maxY - minY + 1
    IN  IF CellOf(r.x) > cols - 1 \/ CellOf(r.y) > rows - 1
           \/ CellOf(r.x + r.width) < 0 \/ CellOf(r.y + r.height) < 0
        THEN << >>
        ELSE [k \in 1 .. (nx * ny) |->
                (minY + ((k - 1) \div nx)) * cols + (minX + ((k - 1) % nx))]

\* UniformGrid::visitCells from the four int conversions on: x0, y0, x1, y1
\* are int(r.x/cs), int(r.y/cs), int((r.x+r.width)/cs), int((r.y+r.height)/cs).
CellLoop(x0, y0, x1, y1) ==
    LET minX == Clamp(x0, 0, cols - 1)
        minY == Clamp(y0, 0, rows - 1)
        maxX == Clamp(x1, 0, cols - 1)
        maxY == Clamp(y1, 0, rows - 1)
        nx == maxX - minX + 1
        ny == maxY - minY + 1
    IN  IF nx <= 0 \/ ny <= 0 THEN << >>
        ELSE [k \in 1 .. (nx * ny) |->
                (minY + ((k - 1) \div nx)) * cols + (minX + ((k - 1) % nx))]

visitCells(r) ==
    CellLoop(CellOf(r.x), CellOf(r.y), CellOf(r.x + r.width), CellOf(r.y + r.height))

\* std::remove + erase: every occurrence of e leaves v, the rest keeps its order.
RECURSIVE EraseAll(_, _)
EraseAll(v, e) ==
    IF v = << >> THEN << >>
    ELSE IF Head(v) = e THEN EraseAll(Tail(v), e)
         ELSE <<Head(v)>> \o EraseAll(Tail(v), e)

\* UniformGrid::insert: push_back(e) on every visited bucket.
RECURSIVE InsertCells(_, _, _)
InsertCells(b, e, cells) ==
    IF cells = << >> THEN b
    ELSE InsertCells([b EXCEPT ![Head(cells)] = Append(@, e)], e, Tail(cells))

insert(b, e, box) == InsertCells(b, e, visitCells(box))

\* UniformGrid::remove: erase e from every visited bucket.
RECURSIVE RemoveCells(_, _, _)
RemoveCells(b, e, cells) ==
    IF cells = << >> THEN b
    ELSE RemoveCells([b EXCEPT ![Head(cells)] = EraseAll(@, e)], e, Tail(cells))

MutRemoveFirstCellOnly(b, e, box) ==
    LET c == visitCells(box)
    IN  IF c = << >> THEN b ELSE RemoveCells(b, e, <<Head(c)>>)

remove(b, e, box) == RemoveCells(b, e, visitCells(box))

\* UniformGrid::query: fn is called on every entry of every visited bucket,
\* bucket by bucket; the result is the sequence of those calls.
RECURSIVE QueryCells(_, _)
QueryCells(b, cells) ==
    IF cells = << >> THEN << >>
    ELSE b[Head(cells)] \o QueryCells(b, Tail(cells))

query(b, area) == QueryCells(b, visitCells(area))

EmptyGrid == [i \in Cells |-> << >>]

\* The cells in which e is stored.
StoredIn(b, e) == { i \in Cells : e \in Range(b[i]) }

---------------------------------------------------------------------------
(* Vector2, ConvexPolygon, CollisionShape                                  *)

Vec(x, y) == [x |-> x, y |-> y]

\* A Vector2 result whose components may be NaN (finite = FALSE).
FVec(x, y) == [x |-> x, y |-> y, finite |-> TRUE]
NaNVec == [x |-> 0, y |-> 0, finite |-> FALSE]

\* float * float and float / float at the fixed-point resolution.
FMul(a, b) == TruncDiv(a * b, Unit)

Vector2Add(a, b) == Vec(a.x + b.x, a.y + b.y)
Vector2Subtract(a, b) == Vec(a.x - b.x, a.y - b.y)
Vector2Scale(v, k) == Vec(FMul(v.x, k), FMul(v.y, k))
Vector2Negate(v) == Vec(-v.x, -v.y)
\* The dot product before it is brought back to 1/Unit: comparisons of a dot
\* product with a constant are made on this exact value.
DotRaw(a, b) == a.x * b.x + a.y * b.y
Vector2DotProduct(a, b) == TruncDiv(DotRaw(a, b), Unit)

\* sqrtf on a non-negative integer: the floor of the square root.
RECURSIVE SqrtIter(_, _)
SqrtIter(n, x) ==
    LET y == (x + n \div x) \div 2
    IN  IF y >= x THEN x ELSE SqrtIter(n, y)

ISqrt(n) == IF n <= 0 THEN 0 ELSE SqrtIter(n, n)

\* raymath Vector2Normalize: v / |v|, and v itself when |v| = 0.
Vector2Normalize(v) ==
    LET length == ISqrt(v.x * v.x + v.y * v.y)
    IN  IF length > 0
        THEN Vec(TruncDiv(v.x * Unit, length), TruncDiv(v.y * Unit, length))
        ELSE v

Abs(a) == IF a < 0 THEN -a ELSE a

\* Rotations are degrees in 1/Unit.  cosf / sinf of the rotations the model
\* draws: multiples of 90 degrees and 36.87 degrees (the 3-4-5 angle).
Deg90 == 90 * Unit
Deg3687 == 73740

CosOf(deg) ==
    CASE deg = 0 -> Unit
      [] deg = Deg90 -> 0
      [] deg = 2 * Deg90 -> -Unit
      [] deg = 3 * Deg90 -> 0
      [] deg = Deg3687 -> (4 * Unit) \div 5

SinOf(deg) ==
    CASE deg = 0 -> 0
      [] deg = Deg90 -> Unit
      [] deg = 2 * Deg90 -> 0
      [] deg = 3 * Deg90 -> -Unit
      [] deg = Deg3687 -> (3 * Unit) \div 5

RECURSIVE SumVec(_)
SumVec(vs) == IF vs = << >> THEN Vec(0, 0) ELSE Vector2Add(Head(vs), SumVec(Tail(vs)))

\* ConvexPolygon::ConvexPolygon(vertices): the world cache is resized (zeros),
\* the centre is the mean of the vertices, or the origin for no vertices.
ConvexPolygon(vertices) ==
    LET n == Len(vertices)
        c == IF n > 0
             THEN Vec(TruncDiv(SumVec(vertices).x, n), TruncDiv(SumVec(vertices).y, n))
             ELSE Vec(0, 0)
    IN  [localVertices |-> vertices,
         worldVertices |-> [i \in 1 .. n |-> Vec(0, 0)],
         localCenter |-> c,
         worldCenter |-> c]

\* scale about the pivot, rotate about the pivot, translate to the position.
TransformPoint(v, pos, cosTheta, sinTheta, entityScale) ==
    LET sx == FMul(v.x, entityScale)
        sy == FMul(v.y, entityScale)
        rotatedX == FMul(sx, cosTheta) - FMul(sy, sinTheta)
        rotatedY == FMul(sx, sinTheta) + FMul(sy, cosTheta)
    IN  Vector2Add(pos, Vec(rotatedX, rotatedY))

\* The loop of ConvexPolygon::transform: worldVertices[i] is assigned for
\* i = 0 .. size-1 (here 1 .. n), every other content of the cache is kept.
RECURSIVE TransformLoop(_, _, _, _, _, _, _)
TransformLoop(wv, lv, i, pos, cosTheta, sinTheta, entityScale) ==
    IF i > Len(lv) THEN wv
    ELSE TransformLoop(
            [wv EXCEPT ![i] = TransformPoint(lv[i], pos, cosTheta, sinTheta, entityScale)],
            lv, i + 1, pos, cosTheta, sinTheta, entityScale)

MutTransformTranslateFirst(poly, entityPosition, entityRotationDegrees, entityScale) ==
    IF poly.localVertices = << >> THEN poly
    ELSE LET cosTheta == CosOf(entityRotationDegrees)
             sinTheta == SinOf(entityRotationDegrees)
         IN  [poly EXCEPT
                !.worldVertices =
                    [i \in 1 .. Len(poly.localVertices) |->
                        Vector2Add(poly.worldVertices[i],
                            TransformPoint(poly.localVertices[i], Vec(0, 0),
                                           cosTheta, sinTheta, entityScale))],
                !.worldCenter = TransformPoint(poly.localCenter, entityPosition,
                                               cosTheta, sinTheta, entityScale)]

\* ConvexPolygon::transform
transform(poly, entityPosition, entityRotationDegrees, entityScale) ==
    IF poly.localVertices = << >> THEN poly
    ELSE LET cosTheta == CosOf(entityRotationDegrees)
             sinTheta == SinOf(entityRotationDegrees)
         IN  [poly EXCEPT
                !.worldVertices = TransformLoop(poly.worldVertices, poly.localVertices, 1,
                                        entityPosition, cosTheta, sinTheta, entityScale),
                !.worldCenter = TransformPoint(poly.localCenter, entityPosition,
                                               cosTheta, sinTheta, entityScale)]

\* CollisionShape::addPolygon
addPolygon(shape, adjustedLocalVertices) == Append(shape, ConvexPolygon(adjustedLocalVertices))

\* CollisionShape::updateWorldVertices
updateWorldVertices(shape, entityPosition, entityRotationDegrees, entityScale) ==
    [k \in 1 .. Len(shape) |->
        transform(shape[k], entityPosition, entityRotationDegrees, entityScale)]

---------------------------------------------------------------------------
(* CollisionSystem: the SAT functions                                      *)

\* 1e-3f, the separation tolerance of CheckSATCollision, in 1/Unit.
Tol == 2
\* 0.999f, the parallel-axis threshold of GetUniqueAxes, in 1/Unit.
ParallelDot == 1998

\* CollisionSystem::ProjectPolygon: [min, max] of the dot products.
RECURSIVE ProjectLoop(_, _, _, _)
ProjectLoop(axis, wv, i, mm) ==
    IF i > Len(wv) THEN mm
    ELSE LET p == Vector2DotProduct(wv[i], axis)
         IN  ProjectLoop(axis, wv, i + 1,
                IF p < mm.min THEN [mm EXCEPT !.min = p]
                ELSE IF p > mm.max THEN [mm EXCEPT !.max = p]
                ELSE mm)

ProjectPolygon(axis, worldVertices) ==
    IF worldVertices = << >> THEN [min |-> 0, max |-> 0]
    ELSE LET p0 == Vector2DotProduct(worldVertices[1], axis)
         IN  ProjectLoop(axis, worldVertices, 2, [min |-> p0, max |-> p0])

MutGetOverlapSpan(minA, maxA, minB, maxB) == Max2(0, Max2(maxA, maxB) - Min2(minA, minB))

\* The overlap without the clamp at 0.
MutGetOverlapSigned(minA, maxA, minB, maxB) == Min2(maxA, maxB) - Max2(minA, minB)

\* CollisionSystem::GetOverlap
GetOverlap(minA, maxA, minB, maxB) == Max2(0, Min2(maxA, maxB) - Max2(minA, minB))

\* CollisionSystem::GetUniqueAxes
RECURSIVE AxesLoop(_, _, _)
AxesLoop(wv, i, axes) ==
    IF i > Len(wv) THEN axes
    ELSE LET p1 == wv[i]
             p2 == wv[(i % Len(wv)) + 1]
             edge == Vector2Subtract(p2, p1)
             normal == Vector2Normalize(Vec(-edge.y, edge.x))
             foundParallel == \E k \in 1 .. Len(axes) :
                                 Abs(DotRaw(normal, axes[k])) > ParallelDot * Unit
         IN  AxesLoop(wv, i + 1, IF foundParallel THEN axes ELSE Append(axes, normal))

GetUniqueAxes(worldVertices) ==
    IF Len(worldVertices) < 2 THEN << >> ELSE AxesLoop(worldVertices, 1, << >>)

\* The body of the loop of testAxes for one axis that does not separate: o is
\* the overlap on it.
Retain(axis, o, st) ==
    IF ~st.tested \/ o < st.overlap
    THEN [sep |-> FALSE, tested |-> TRUE, overlap |-> o, smallestAxis |-> axis]
    ELSE st

\* The body of the loop of testAxes for one axis: a and b are the projections
\* of polyA and polyB on it.
testAxis(axis, a, b, st) ==
    IF a.max < b.min - Tol \/ b.max < a.min - Tol
    THEN [st EXCEPT !.sep = TRUE]
    ELSE Retain(axis, GetOverlap(a.min, a.max, b.min, b.max), st)

\* The lambda testAxes of CheckSATCollision.  st.tested = FALSE stands for
\* overlap = +infinity (nothing retained yet); st.sep = TRUE for "return false".
RECURSIVE testAxes(_, _, _, _)
testAxes(currentAxes, polyA, polyB, st) ==
    IF st.sep \/ currentAxes = << >> THEN st
    ELSE testAxes(Tail(currentAxes), polyA, polyB,
            testAxis(Head(currentAxes),
                     ProjectPolygon(Head(currentAxes), polyA.worldVertices),
                     ProjectPolygon(Head(currentAxes), polyB.worldVertices), st))

SatStart == [sep |-> FALSE, tested |-> FALSE, overlap |-> 0, smallestAxis |-> Vec(0, 0)]

\* Both testAxes calls of CheckSATCollision, axesA before axesB.
SatScan(polyA, polyB) ==
    testAxes(GetUniqueAxes(polyB.worldVertices), polyA, polyB,
        testAxes(GetUniqueAxes(polyA.worldVertices), polyA, polyB, SatStart))

\* The retained axis after it is turned to point from polyA's centre to polyB's.
Orient(polyA, polyB, smallestAxis) ==
    LET direction == Vector2Subtract(polyB.worldCenter, polyA.worldCenter)
    IN  IF DotRaw(direction, smallestAxis) < 0
        THEN Vector2Negate(smallestAxis)
        ELSE smallestAxis

OrientedAxis(polyA, polyB) == Orient(polyA, polyB, SatScan(polyA, polyB).smallestAxis)

MutCheckSATOnlyAxesA(polyA, polyB, mtvIn) ==
    IF polyA.worldVertices = << >> \/ polyB.worldVertices = << >>
    THEN [hit |-> FALSE, mtv |-> mtvIn]
    ELSE LET st == testAxes(GetUniqueAxes(polyA.worldVertices), polyA, polyB, SatStart)
             direction == Vector2Subtract(polyB.worldCenter, polyA.worldCenter)
             ax == IF DotRaw(direction, st.smallestAxis) < 0
                   THEN Vector2Negate(st.smallestAxis) ELSE st.smallestAxis
             scaled == Vector2Scale(ax, st.overlap)
         IN  IF st.sep THEN [hit |-> FALSE, mtv |-> mtvIn]
             ELSE [hit |-> TRUE,
                   mtv |-> IF st.tested THEN FVec(scaled.x, scaled.y) ELSE NaNVec]

MutCheckSATNoEmptyGuard(polyA, polyB, mtvIn) ==
    LET st == SatScan(polyA, polyB)
        scaled == Vector2Scale(OrientedAxis(polyA, polyB), st.overlap)
    IN  IF st.sep THEN [hit |-> FALSE, mtv |-> mtvIn]
        ELSE [hit |-> TRUE,
              mtv |-> IF st.tested THEN FVec(scaled.x, scaled.y) ELSE NaNVec]

\* CollisionSystem::CheckSATCollision(polyA, polyB, mtv): the return value and
\* the content of the out-parameter mtv afterwards (mtvIn when it is not written).
\* With no axis tested the code scales the zero axis by +infinity: NaN, NaN.
\* The end of CheckSATCollision: st is what the two testAxes calls left.
SatVerdict(polyA, polyB, mtvIn, st) ==
    LET scaled == Vector2Scale(Orient(polyA, polyB, st.smallestAxis), st.overlap)
    IN  IF st.sep THEN [hit |-> FALSE, mtv |-> mtvIn]
        ELSE [hit |-> TRUE,
              mtv |-> IF st.tested THEN FVec(scaled.x, scaled.y) ELSE NaNVec]

CheckSATCollision(polyA, polyB, mtvIn) ==
    IF polyA.worldVertices = << >> \/ polyB.worldVertices = << >>
    THEN [hit |-> FALSE, mtv |-> mtvIn]
    ELSE SatVerdict(polyA, polyB, mtvIn, SatScan(polyA, polyB))

\* CollisionSystem::CheckShapesCollide: the first colliding pair, polyA outer.
RECURSIVE ShapesLoop(_, _, _, _, _)
ShapesLoop(shapeA, shapeB, i, j, mtvIn) ==
    IF i > Len(shapeA) THEN [hit |-> FALSE, mtv |-> mtvIn]
    ELSE IF j > Len(shapeB) THEN ShapesLoop(shapeA, shapeB, i + 1, 1, mtvIn)
    ELSE LET r == CheckSATCollision(shapeA[i], shapeB[j], mtvIn)
         IN  IF r.hit THEN r ELSE ShapesLoop(shapeA, shapeB, i, j + 1, r.mtv)

CheckShapesCollide(shapeA, shapeB, mtvIn) == ShapesLoop(shapeA, shapeB, 1, 1, mtvIn)


---------------------------------------------------------------------------
(* Entity and the ships                                                    *)

\* Entity::recalcOverallAABB, the scan of every world vertex of every polygon:
\* st.first is the flag of the same name, st.box the running minX .. maxY.
RECURSIVE ScanVertices(_, _)
ScanVertices(wv, st) ==
    IF wv = << >> THEN st
    ELSE LET v == Head(wv)
         IN  ScanVertices(Tail(wv),
                IF st.first
                THEN [first |-> FALSE, minX |-> v.x, maxX |-> v.x,
                      minY |-> v.y, maxY |-> v.y]
                ELSE [first |-> FALSE,
                      minX |-> Min2(st.minX, v.x), maxX |-> Max2(st.maxX, v.x),
                      minY |-> Min2(st.minY, v.y), maxY |-> Max2(st.maxY, v.y)])

RECURSIVE ScanPolygons(_, _)
ScanPolygons(shape, st) ==
    IF shape = << >> THEN st
    ELSE ScanPolygons(Tail(shape), ScanVertices(Head(shape).worldVertices, st))

\* Entity::recalcOverallAABB, the fallback to the visual rectangle.
VisualRectangle(e) ==
    LET w2 == FMul(TruncDiv(e.size.x, 2), e.scale)
        h2 == FMul(TruncDiv(e.size.y, 2), e.scale)
    IN  Rect(e.position.x - w2, e.position.y - h2, w2 * 2, h2 * 2)

\* Entity::recalcOverallAABB, the rectangle of the scanned extremes.
ScannedRectangle(st) == Rect(st.minX, st.minY, st.maxX - st.minX, st.maxY - st.minY)

\* Entity::recalcOverallAABB after its call of shape.updateWorldVertices has
\* left the polygons as in shape.
recalcFrom(e, shape) ==
    [e EXCEPT !.shape = shape,
              !.nShapeUpdates = @ + 1,
              !.overallAABB =
                  IF shape = << >> THEN VisualRectangle(e)
                  ELSE ScannedRectangle(ScanPolygons(shape,
                          [first |-> TRUE, minX |-> 0, maxX |-> 0,
                           minY |-> 0, maxY |-> 0]))]

\* Entity::recalcOverallAABB
recalcOverallAABB(e) ==
    recalcFrom(e, updateWorldVertices(e.shape, e.position, e.rotation, e.scale))

\* Entity::recalcCollision
recalcCollision(e) ==
    [e EXCEPT !.collisionBox = Rect(e.position.x - TruncDiv(e.size.x, 2),
                                    e.position.y - TruncDiv(e.size.y, 2),
                                    e.size.x, e.size.y)]

\* Entity::setPosition
setPosition(e, pos) == recalcOverallAABB([e EXCEPT !.position = pos])

\* Entity::isAliveAndCollidable
isAliveAndCollidable(e) == e.isAlive /\ e.isCollidable

\* The data members of Entity with their default initialisers; addr is the
\* address of the object, which the collision loop compares, nShapeUpdates
\* the number of shape.updateWorldVertices calls the object has made.
Entity(kind, addr) ==
    [kind |-> kind, addr |-> addr,
     position |-> Vec(0, 0), size |-> Vec(64 * Unit, 64 * Unit),
     rotation |-> 0, scale |-> Unit,
     isAlive |-> TRUE, isCollidable |-> TRUE,
     overallAABB |-> Rect(0, 0, 0, 0), collisionBox |-> Rect(0, 0, 0, 0),
     shape |-> << >>, nShapeUpdates |-> 0]

\* BigShip::BigShip(hull, start): no polygon is added and only the collision
\* box is computed.
BigShip(texture, start, addr) ==
    recalcCollision([Entity("BigShip", addr) EXCEPT !.size = texture, !.position = start])

\* BasicShip::BasicShip(sharedTex, pos)
BasicShip(texture, pos, addr) ==
    LET e == [Entity("BasicShip", addr) EXCEPT !.size = texture, !.position = pos]
        h == TruncDiv(e.size.y, 4)
        w == TruncDiv(e.size.x, 4)
        shape == addPolygon(e.shape, <<Vec(0, -h), Vec(w, h), Vec(-w, h)>>)
    IN  recalcOverallAABB(
            [e EXCEPT !.shape = updateWorldVertices(shape, e.position, e.rotation, Unit),
                      !.nShapeUpdates = @ + 1])

\* A point of the hull outline, given in pixels: one world unit of the model
\* is 125 pixels, so a pixel is Unit / 125 of the fixed-point resolution.
Px(x, y) == Vec(x * (Unit \div 125), y * (Unit \div 125))

\* The outline BLB63DreadNaught hands to shape.addPolygon.
DreadNaughtHull ==
    <<
       Px(-76, -345), Px(-84, -135), Px(-34, -107), Px(2, -208),
       Px(34, -111), Px(104, -152), Px(75, -344), Px(168, -166),
       Px(182, -30), Px(153, 64), Px(211, 117), Px(153, 105),
       Px(224, 174), Px(185, 162), Px(193, 223), Px(162, 205),
       Px(148, 284), Px(19, 268), Px(22, 189), Px(2, 194),
       Px(-17, 193), Px(-24, 263), Px(-141, 287), Px(-155, 191),
       Px(-187, 224), Px(-183, 168), Px(-223, 174), Px(-153, 107),
       Px(-212, 117), Px(-149, 68), Px(-185, -105), Px(-76, -346)
    >>

\* The outline is followed at MaxHullPoints of its points, evenly spread
\* (all of them when MaxHullPoints reaches their number).
MaxHullPoints == 8

Sampled(outline, n) ==
    IF n >= Len(outline) THEN outline
    ELSE [k \in 1 .. n |-> outline[((k - 1) * Len(outline)) \div n + 1]]

\* BLB63DreadNaught::BLB63DreadNaught(hull, start): the collision box is
\* computed, the polygon is added, the overall AABB is left as constructed.
BLB63DreadNaught(texture, start, addr) ==
    LET e == recalcCollision(
                [Entity("BLB63DreadNaught", addr) EXCEPT !.size = texture, !.position = start])
    IN  [e EXCEPT !.shape = addPolygon(e.shape, Sampled(DreadNaughtHull, MaxHullPoints))]

\* The steering common to the three update functions.  The input of a frame
\* (dt, the goal or target) is given by its effect: the displacement step the
\* ship makes and the heading atan2(d.y, d.x) * RAD2DEG + 90 of that
\* displacement; with no displacement position and rotation are kept.
Steer(e, move) ==
    IF move.step = Vec(0, 0) THEN e
    ELSE [e EXCEPT !.position = Vector2Add(e.position, move.step),
                   !.rotation = move.heading]

\* BigShip::update
BigShipUpdate(e, move) == recalcCollision(Steer(e, move))

\* BasicShip::update
BasicShipUpdate(e, move) ==
    LET s == Steer(e, move)
    IN  recalcOverallAABB(
            [s EXCEPT !.shape = updateWorldVertices(s.shape, s.position, s.rotation, Unit),
                      !.nShapeUpdates = @ + 1])

\* BLB63DreadNaught::update
BLB63DreadNaughtUpdate(e, move) ==
    LET s == Steer(e, move)
    IN  recalcOverallAABB(
            [s EXCEPT !.shape = updateWorldVertices(s.shape, s.position, s.rotation, Unit),
                      !.nShapeUpdates = @ + 1])

\* The virtual call E.update(dt, camera).
EntityUpdate(e, move) ==
    CASE e.kind = "BigShip" -> BigShipUpdate(e, move)
      [] e.kind = "BasicShip" -> BasicShipUpdate(e, move)
      [] e.kind = "BLB63DreadNaught" -> BLB63DreadNaughtUpdate(e, move)

---------------------------------------------------------------------------
(* World                                                                   *)

\* World::bucketOf
bucketOf(p) ==
    [x |-> TruncDiv(TruncDiv(p.x, Unit), CELL_SIZE),
     y |-> TruncDiv(TruncDiv(p.y, Unit), CELL_SIZE)]

\* World::keepInside(box, pos): both arguments are references; the result is
\* their content afterwards.
keepInside(box, pos) ==
    LET halfW == TruncDiv(box.width, 2)
        halfH == TruncDiv(box.height, 2)
        px == Clamp(pos.x, halfW, WORLD_W * Unit - halfW)
        py == Clamp(pos.y, halfH, WORLD_H * Unit - halfH)
    IN  [box |-> [box EXCEPT !.x = px - halfW, !.y = py - halfH],
         pos |-> Vec(px, py)]

\* World::spawn<T>(pos, texture): the object is constructed and appended, then
\* entered in the grid under its collision box.  An entity is named by its
\* index in World::entities.
Construct(kind, texture, pos, addr) ==
    CASE kind = "BigShip" -> BigShip(texture, pos, addr)
      [] kind = "BasicShip" -> BasicShip(texture, pos, addr)
      [] kind = "BLB63DreadNaught" -> BLB63DreadNaught(texture, pos, addr)

\* entities.emplace_back(ptr); grid.insert(&ref, ref.getCollision())
emplace(w, ref) ==
    [w EXCEPT !.entities = Append(w.entities, ref),
              !.grid = insert(w.grid, Len(w.entities) + 1, ref.collisionBox)]

spawn(w, kind, texture, pos, addr) == emplace(w, Construct(kind, texture, pos, addr))

\* n calls of shape.updateWorldVertices on entities[i], as events of the trace.
Invoked(i, n) == [j \in 1 .. n |-> [ev |-> "updateWorldVertices", e |-> i]]

\* The calls grid.remove(&E, removed); grid.insert(&E, inserted), as events.
GridCalls(changed, i, removed, inserted) ==
    IF changed
    THEN << [ev |-> "remove", e |-> i, box |-> removed],
            [ev |-> "insert", e |-> i, box |-> inserted] >>
    ELSE << >>

\* The first loop of World::update from keepInside on: E is entities[i] after
\* its update, k the position and oldBox that keepInside leaves, g the grid
\* the iteration leaves.  The trace receives the calls of
\* updateWorldVertices that E.update made, the grid calls, and the iteration
\* itself: the AABB before the update, the box handed to remove, the new AABB.
FirstPassDone(w, i, oldCell, E, k, g) ==
    [w EXCEPT
        !.entities = [w.entities EXCEPT ![i] = [E EXCEPT !.position = k.pos]],
        !.grid = g,
        !.trace = @ \o Invoked(i, E.nShapeUpdates - w.entities[i].nShapeUpdates)
                    \o GridCalls(oldCell # bucketOf(k.pos), i, k.box, E.overallAABB)
                    \o << [ev |-> "firstPass", e |-> i,
                           oldCell |-> oldCell, newCell |-> bucketOf(k.pos),
                           oldBox |-> w.entities[i].overallAABB,
                           removed |-> k.box, newBox |-> E.overallAABB,
                           grid |-> g] >>]

MutMoveWithoutInsert(w, i, oldCell, E, k) ==
    FirstPassDone(w, i, oldCell, E, k,
        IF oldCell # bucketOf(k.pos)
        THEN remove(w.grid, i, k.box)
        ELSE w.grid)

MoveInGrid(w, i, oldCell, E, k) ==
    FirstPassDone(w, i, oldCell, E, k,
        IF oldCell # bucketOf(k.pos)
        THEN insert(remove(w.grid, i, k.box), i, E.overallAABB)
        ELSE w.grid)

\* The first loop of World::update after E.update(dt, camera) has made
\* entities[i] into E.
KeepAndMove(w, i, oldCell, oldBox, E) ==
    MoveInGrid(w, i, oldCell, E, keepInside(oldBox, E.position))

\* One iteration of the first loop of World::update, for entities[i].
FirstPassStep(w, i, move) ==
    IF ~isAliveAndCollidable(w.entities[i]) THEN w
    ELSE KeepAndMove(w, i, bucketOf(w.entities[i].position),
                     w.entities[i].overallAABB, EntityUpdate(w.entities[i], move))

RECURSIVE FirstPass(_, _, _)
FirstPass(w, i, moves) ==
    IF i > Len(w.entities) THEN w
    ELSE FirstPass(FirstPassStep(w, i, moves[i]), i + 1, moves)

\* The value of the local "Vector2 mtv;" before CheckShapesCollide writes it.
\* It is read only after a collision, which has written it.
UninitialisedMtv == FVec(0, 0)

\* The resolution of a collision of A = entities[a] with B = entities[b]:
\* A2 and B2 are the two entities after their setPosition calls.
Resync(w, a, b, aabbA, A2, B2) ==
    [w EXCEPT
        !.entities = [w.entities EXCEPT ![a] = A2, ![b] = B2],
        !.grid = insert(remove(w.grid, a, aabbA), a, A2.overallAABB),
        !.trace = @ \o Invoked(a, A2.nShapeUpdates - w.entities[a].nShapeUpdates)
                    \o Invoked(b, B2.nShapeUpdates - w.entities[b].nShapeUpdates)
                    \o GridCalls(TRUE, a, aabbA, A2.overallAABB)]

\* The trace receives the resolution step: the entities before it (in w) and
\* after it (in done), and the grid it leaves.
Resolved(w, done, a, b, half) ==
    [done EXCEPT !.trace = @ \o << [ev |-> "resolve", a |-> a, b |-> b, half |-> half,
                                    before |-> w.entities, after |-> done.entities,
                                    grid |-> done.grid] >>]

\* A resolution that moves A alone.
MutResolveOnlyA(w, a, b, aabbA, half) ==
    Resolved(w,
        Resync(w, a, b, aabbA,
           setPosition(w.entities[a], Vector2Subtract(w.entities[a].position, half)),
           w.entities[b]),
        a, b, half)

\* The body of "if (CheckShapesCollide(...))": half is mtv scaled by 0.5.
Resolve(w, a, b, aabbA, half) ==
    Resolved(w,
        Resync(w, a, b, aabbA,
           setPosition(w.entities[a], Vector2Subtract(w.entities[a].position, half)),
           setPosition(w.entities[b], Vector2Add(w.entities[b].position, half))),
        a, b, half)

\* The body of the candidates loop for a pair that passed the three filters;
\* r is what CheckShapesCollide(A.shape, B->shape, mtv) returned and wrote.
Called(w, a, b, r) ==
    [w EXCEPT !.calls = Append(@, [a |-> a, b |-> b, hit |-> r.hit, mtv |-> r.mtv]),
              !.trace = Append(@, [ev |-> "CheckShapesCollide", a |-> a, b |-> b,
                                   hit |-> r.hit, mtv |-> r.mtv,
                                   A |-> w.entities[a], B |-> w.entities[b]])]

Collide(w, a, b, aabbA, r) ==
    IF r.hit
    THEN Resolve(Called(w, a, b, r), a, b, aabbA, Vector2Scale(r.mtv, Unit \div 2))
    ELSE Called(w, a, b, r)

\* The candidates loop without "if (!B->isAliveAndCollidable()) continue;".
MutCandidateAnyB(w, a, b, aabbA) ==
    IF b = a \/ w.entities[a].addr > w.entities[b].addr
    THEN w
    ELSE Collide(w, a, b, aabbA,
                 CheckShapesCollide(w.entities[a].shape, w.entities[b].shape,
                                    UninitialisedMtv))

\* One iteration of the candidates loop of A = entities[a], for B = entities[b].
Candidate(w, a, b, aabbA) ==
    IF b = a \/ ~isAliveAndCollidable(w.entities[b])
       \/ w.entities[a].addr > w.entities[b].addr
    THEN w
    ELSE Collide(w, a, b, aabbA,
                 CheckShapesCollide(w.entities[a].shape, w.entities[b].shape,
                                    UninitialisedMtv))

\* The loop over the candidates of A = entities[a] in the second pass.
RECURSIVE NarrowPhase(_, _, _, _)
NarrowPhase(w, a, aabbA, candidates) ==
    IF candidates = << >> THEN w
    ELSE NarrowPhase(Candidate(w, a, Head(candidates), aabbA), a, aabbA, Tail(candidates))

\* One iteration of the second loop of World::update, for A = entities[a].
\* queries records each grid.query with the grid and the boxes it met.
Snapshot(w, a, aabbA, candidates) ==
    [w EXCEPT
        !.queries = Append(@,
            [a |-> a, area |-> aabbA, candidates |-> candidates, grid |-> w.grid,
             boxes |-> [i \in 1 .. Len(w.entities) |-> w.entities[i].overallAABB]]),
        !.trace = @ \o << [ev |-> "queryBegin", a |-> a, area |-> aabbA,
                           grid |-> w.grid, entities |-> w.entities] >>
                    \o [j \in 1 .. Len(candidates) |->
                            [ev |-> "visit", a |-> a, e |-> candidates[j]]]
                    \o << [ev |-> "queryEnd", a |-> a] >>]

\* The narrow phase run from inside the visitor of grid.query.
MutNarrowInsideQuery(w, a, aabbA, candidates) ==
    LET opened == [w EXCEPT !.trace = Append(@, [ev |-> "queryBegin", a |-> a,
                        area |-> aabbA, grid |-> w.grid, entities |-> w.entities])]
        done == NarrowPhase(opened, a, aabbA, candidates)
    IN  [done EXCEPT !.trace = Append(@, [ev |-> "queryEnd", a |-> a])]

Narrow(w, a, aabbA, candidates) ==
    NarrowPhase(Snapshot(w, a, aabbA, candidates), a, aabbA, candidates)

SecondPassStep(w, a) ==
    IF ~isAliveAndCollidable(w.entities[a]) THEN w
    ELSE Narrow(w, a, w.entities[a].overallAABB,
                query(w.grid, w.entities[a].overallAABB))

RECURSIVE SecondPass(_, _)
SecondPass(w, a) ==
    IF a > Len(w.entities) THEN w
    ELSE SecondPass(SecondPassStep(w, a), a + 1)

\* World::update(dt): w is the world (entities, grid) together with the
\* record of the queries and CheckShapesCollide calls of this frame.
update(w, moves) ==
    SecondPass(FirstPass([w EXCEPT !.queries = << >>, !.calls = << >>, !.trace = << >>],
                         1, moves), 1)

\* World::teleport(e, newPos)
\* World::teleport from e.setPosition on: g is the grid after the remove,
\* E the entity after setPosition.
Reinsert(w, e, g, E) ==
    [w EXCEPT !.entities = [w.entities EXCEPT ![e] = E],
              !.grid = insert(g, e, E.collisionBox)]

teleport(w, e, newPos) ==
    Reinsert(w, e, remove(w.grid, e, w.entities[e].collisionBox),
             setPosition(w.entities[e], newPos))

---------------------------------------------------------------------------
(* SpecGrid: a UniformGrid driven by arbitrary insert / remove / query     *)
(* calls.                                                                  *)

MaxGridOps == 3

\* Entity pointers handed to the grid.
GridEntities == {1, 2}

\* Rectangles handed to the grid (world units, scaled by Unit): inside one
\* cell, across two and four cells, partly outside with fractional negative
\* coordinates, wholly outside on each side, zero-sized on a cell corner, on
\* the far corner of the world, and covering the whole world.
GridBoxes ==
    { Rect(1 * Unit, 1 * Unit, 2 * Unit, 2 * Unit),
      Rect(3 * Unit, 1 * Unit, 2 * Unit, 1 * Unit),
      Rect(3 * Unit, 3 * Unit, 2 * Unit, 2 * Unit),
      Rect(-(Unit \div 2), -(Unit \div 2), 1 * Unit, 1 * Unit),
      Rect((WORLD_W + 2) * Unit, 2 * Unit, 3 * Unit, 3 * Unit),
      Rect(-9 * Unit, -9 * Unit, 2 * Unit, 2 * Unit),
      Rect(CELL_SIZE * Unit, CELL_SIZE * Unit, 0, 0),
      Rect(WORLD_W * Unit, WORLD_H * Unit, 1 * Unit, 1 * Unit),
      Rect(-1 * Unit, -1 * Unit, (WORLD_W + 8) * Unit, (WORLD_H + 8) * Unit) }

NoBox == Rect(0, 0, 0, 0)
NoTrip == [phase |-> "none", e |-> 0, box |-> NoBox, before |-> EmptyGrid]

\* Closed rectangles with a common point.
Overlaps(a, b) ==
    /\ a.x <= b.x + b.width  /\ b.x <= a.x + a.width
    /\ a.y <= b.y + b.height /\ b.y <= a.y + a.height

\* No point of r lies in the world rectangle [0, WORLD_W] x [0, WORLD_H].
OutsideWorld(r) ==
    \/ r.x + r.width < 0  \/ r.x > WORLD_W * Unit
    \/ r.y + r.height < 0 \/ r.y > WORLD_H * Unit

\* The variables a specification does not use keep these values.
IdleGrid ==
    /\ buckets = EmptyGrid
    /\ gridLog = [op |-> "none", e |-> 0, box |-> NoBox, visited |-> << >>]
    /\ live = [e \in GridEntities |-> {}]
    /\ trip = NoTrip
    /\ nOps = 0

IdlePoly ==
    /\ polygon = ConvexPolygon(<< >>)
    /\ polyLog = [op |-> "none"]

IdleWorld ==
    /\ entities = << >>
    /\ grid = EmptyGrid
    /\ queries = << >>
    /\ calls = << >>
    /\ trace = << >>
    /\ nWorldOps = 0
    /\ worldLog = [op |-> "none"]
    /\ overlapLog = [op |-> "none"]

IdleSat ==
    /\ shpA = << >>
    /\ shpB = << >>
    /\ outMtv = FVec(0, 0)
    /\ satLog = [op |-> "none"]

InitGrid ==
    /\ IdlePoly
    /\ IdleSat
    /\ IdleWorld
    /\ buckets = EmptyGrid
    /\ gridLog = [op |-> "none", e |-> 0, box |-> NoBox, visited |-> << >>]
    /\ live = [e \in GridEntities |-> {}]
    /\ trip = NoTrip
    /\ nOps = 0

GridInsert(e, box) ==
    /\ nOps < MaxGridOps
    /\ buckets' = insert(buckets, e, box)
    /\ gridLog' = [op |-> "insert", e |-> e, box |-> box, visited |-> << >>]
    /\ live' = [live EXCEPT ![e] = @ \cup {box}]
    /\ trip' = IF StoredIn(buckets, e) = {}
               THEN [phase |-> "inserted", e |-> e, box |-> box, before |-> buckets]
               ELSE NoTrip
    /\ nOps' = nOps + 1

GridRemove(e, box) ==
    /\ nOps < MaxGridOps
    /\ buckets' = remove(buckets, e, box)
    /\ gridLog' = [op |-> "remove", e |-> e, box |-> box, visited |-> << >>]
    /\ live' = [live EXCEPT ![e] = {}]
    /\ trip' = IF trip.phase = "inserted" /\ trip.e = e /\ trip.box = box
               THEN [trip EXCEPT !.phase = "removed"]
               ELSE NoTrip
    /\ nOps' = nOps + 1

GridQuery(area) ==
    /\ gridLog' = [op |-> "query", e |-> 0, box |-> area,
                   visited |-> query(buckets, area)]
    /\ UNCHANGED <<buckets, live, trip, nOps>>

NextGrid ==
    /\ UNCHANGED <<polyVars, satVars, worldVars, overlapVars>>
    /\ \/ \E e \in GridEntities, box \in GridBoxes : GridInsert(e, box)
       \/ \E e \in GridEntities, box \in GridBoxes : GridRemove(e, box)
       \/ \E area \in GridBoxes : GridQuery(area)

SpecGrid == InitGrid /\ [][NextGrid]_vars

\* C1 -- query completeness: after a query over an area, every entity that was
\* inserted with a box overlapping the area and has not been removed since has
\* been visited at least once, also when the box or the area lies partly or
\* wholly outside the world.
C1_QueryComplete ==
    gridLog.op = "query" =>
        \A e \in GridEntities : \A box \in live[e] :
            Overlaps(box, gridLog.box) => e \in Range(gridLog.visited)

\* A query found an entity whose box lies wholly outside the world.
C1_Witness ==
    /\ gridLog.op = "query"
    /\ \E e \in GridEntities : \E box \in live[e] :
          /\ OutsideWorld(box)
          /\ Overlaps(box, gridLog.box)
          /\ e \in Range(gridLog.visited)

\* C2 -- insert/remove round trip: insert(e, box) of an entity stored in no
\* bucket, followed by remove(e, box) with the same box, restores every bucket,
\* and a later query over any area does not visit e.
C2_RoundTrip ==
    trip.phase = "removed" =>
        /\ buckets = trip.before
        /\ gridLog.op = "query" => trip.e \notin Range(gridLog.visited)

\* The round trip covered several cells of a grid that holds another entity,
\* and a query over an area overlapping the box followed it.
C2_Witness ==
    /\ trip.phase = "removed"
    /\ Len(visitCells(trip.box)) > 1
    /\ \E i \in Cells : trip.before[i] # << >>
    /\ gridLog.op = "query"
    /\ Overlaps(trip.box, gridLog.box)
    /\ gridLog.visited # << >>

---------------------------------------------------------------------------
(* Polygons, positions and transforms the specifications draw              *)

Square10 == << Vec(-5 * Unit, -5 * Unit), Vec(5 * Unit, -5 * Unit),
               Vec(5 * Unit, 5 * Unit), Vec(-5 * Unit, 5 * Unit) >>
Square2 == << Vec(-1 * Unit, -1 * Unit), Vec(1 * Unit, -1 * Unit),
              Vec(1 * Unit, 1 * Unit), Vec(-1 * Unit, 1 * Unit) >>
\* The triangle BasicShip builds for a 12 x 8 texture: w = 3, h = 2.
Triangle == << Vec(0, -2 * Unit), Vec(3 * Unit, 2 * Unit), Vec(-3 * Unit, 2 * Unit) >>
OnePoint == << Vec(0, 0) >>
NoVertices == << >>

\* [position, rotation, scale]
Xf(x, y, deg, k) == [pos |-> Vec(x, y), rot |-> deg, scale |-> k]

---------------------------------------------------------------------------
(* SpecPoly: one ConvexPolygon under arbitrary transform calls             *)

PolyCatalog == {Square10, Square2, Triangle, OnePoint, NoVertices}

PolyTransforms ==
    { Xf(0, 0, 0, Unit), Xf(8 * Unit, 0, 0, Unit), Xf(8 * Unit, 0, Deg90, Unit),
      Xf(-3 * Unit, 4 * Unit + 1, Deg3687, Unit), Xf(0, 0, 2 * Deg90, 2 * Unit),
      Xf(2 * Unit, 1 * Unit, 3 * Deg90, Unit \div 2) }

\* Contents the world cache of a polygon with n vertices may hold before a call.
StaleCaches(n) ==
    { [i \in 1 .. n |-> Vec(0, 0)], [i \in 1 .. n |-> Vec(i * Unit, -7)] }

InitPoly ==
    /\ IdleGrid
    /\ IdleSat
    /\ IdleWorld
    /\ polygon \in { ConvexPolygon(v) : v \in PolyCatalog }
    /\ polyLog = [op |-> "none"]

\* polygon.transform(position, rotation, scale)
PolyTransform(t) ==
    /\ polygon' = transform(polygon, t.pos, t.rot, t.scale)
    /\ polyLog' = [op |-> "transform", args |-> t, before |-> polygon,
                   repeat |-> (polyLog.op = "transform" /\ polyLog.args = t)]

NextPoly ==
    /\ UNCHANGED <<gridVars, satVars, worldVars, overlapVars>>
    /\ \E t \in PolyTransforms : PolyTransform(t)

SpecPoly == InitPoly /\ [][NextPoly]_vars

\* C9 -- transform is pure and idempotent: a second call with the same
\* (position, rotation, scale) leaves worldVertices and worldCenter as the first
\* call left them; the result is the same whatever the world cache held before
\* the call; localVertices and localCenter are never changed.
C9_TransformPure ==
    polyLog.op = "transform" =>
        /\ polyLog.repeat =>
              /\ polygon.worldVertices = polyLog.before.worldVertices
              /\ polygon.worldCenter = polyLog.before.worldCenter
        /\ \A stale \in StaleCaches(Len(polygon.localVertices)) :
              transform([polyLog.before EXCEPT !.worldVertices = stale],
                        polyLog.args.pos, polyLog.args.rot, polyLog.args.scale)
                  .worldVertices = polygon.worldVertices
        /\ polygon.localVertices = polyLog.before.localVertices
        /\ polygon.localCenter = polyLog.before.localCenter

\* The same transform was called twice in a row on a polygon with vertices,
\* after the cache had held the result of a different transform.
C9_Witness ==
    /\ polyLog.op = "transform"
    /\ polyLog.repeat
    /\ polygon.localVertices # << >>
    /\ polyLog.args.rot # 0
    /\ polygon.worldVertices # [i \in 1 .. Len(polygon.localVertices) |-> Vec(0, 0)]

---------------------------------------------------------------------------
(* SpecSAT: two CollisionShapes, moved by updateWorldVertices and compared *)
(* by CheckSATCollision and CheckShapesCollide.                            *)

\* A shape as its constructor leaves it: one addPolygon per vertex list.
RECURSIVE BuildShape(_)
BuildShape(lists) ==
    IF lists = << >> THEN << >>
    ELSE addPolygon(BuildShape(SubSeq(lists, 1, Len(lists) - 1)), lists[Len(lists)])

ShapeCatalog ==
    { << >>, <<Square10>>, <<Triangle>>, <<OnePoint>>, <<NoVertices>>,
      <<OnePoint, Square10>>, <<Square2, Triangle>> }

TransformsA ==
    { Xf(0, 0, 0, Unit), Xf(0, 0, Deg3687, Unit) }

TransformsB ==
    { Xf(0, 0, 0, Unit), Xf(8 * Unit, 0, 0, Unit), Xf(15 * Unit, 0, 0, Unit),
      Xf(10 * Unit + 1, 0, 0, Unit), Xf(2 * Unit, 1 * Unit, 0, Unit),
      Xf(-9 * Unit, 3 * Unit, 0, Unit), Xf(8 * Unit, 6 * Unit, Deg3687, Unit),
      Xf(0, -6 * Unit, Deg3687, Unit), Xf(2 * Unit, 1 * Unit, Deg90, 2 * Unit) }

\* What an uninitialised "Vector2 mtv;" holds: a value no check writes.
Uninitialised == { FVec(123, -456) }

InitSAT ==
    /\ IdleGrid
    /\ IdlePoly
    /\ IdleWorld
    /\ shpA \in { BuildShape(l) : l \in ShapeCatalog }
    /\ shpB \in { BuildShape(l) : l \in ShapeCatalog }
    /\ outMtv = FVec(0, 0)
    /\ satLog = [op |-> "none"]

\* shpA.updateWorldVertices(...)
SatUpdateA(t) ==
    /\ shpA' = updateWorldVertices(shpA, t.pos, t.rot, t.scale)
    /\ satLog' = [op |-> "update"]
    /\ UNCHANGED <<shpB, outMtv>>

\* shpB.updateWorldVertices(...)
SatUpdateB(t) ==
    /\ shpB' = updateWorldVertices(shpB, t.pos, t.rot, t.scale)
    /\ satLog' = [op |-> "update"]
    /\ UNCHANGED <<shpA, outMtv>>

\* Vector2 mtv; CheckSATCollision(shapeA.polygons[i], shapeB.polygons[j], mtv)
SatCheckPolys(i, j, mtvIn) ==
    LET r == CheckSATCollision(shpA[i], shpB[j], mtvIn)
    IN  /\ outMtv' = r.mtv
        /\ satLog' = [op |-> "sat", i |-> i, j |-> j, hit |-> r.hit, mtvIn |-> mtvIn]
        /\ UNCHANGED <<shpA, shpB>>

\* Vector2 mtv; CheckShapesCollide(shapeA, shapeB, mtv)
SatCheckShapes(mtvIn) ==
    LET r == CheckShapesCollide(shpA, shpB, mtvIn)
    IN  /\ outMtv' = r.mtv
        /\ satLog' = [op |-> "shapes", hit |-> r.hit, mtvIn |-> mtvIn]
        /\ UNCHANGED <<shpA, shpB>>

NextSAT ==
    /\ UNCHANGED <<gridVars, polyVars, worldVars, overlapVars>>
    /\ \/ \E t \in TransformsA : SatUpdateA(t)
       \/ \E t \in TransformsB : SatUpdateB(t)
       \/ \E i \in 1 .. Len(shpA), j \in 1 .. Len(shpB), m \in Uninitialised :
             SatCheckPolys(i, j, m)
       \/ \E m \in Uninitialised : SatCheckShapes(m)

SpecSAT == InitSAT /\ [][NextSAT]_vars

\* The operands of the last CheckSATCollision call.
PolyA == shpA[satLog.i]
PolyB == shpB[satLog.j]

SatCalled == satLog.op = "sat"
SatHit == satLog.op = "sat" /\ satLog.hit

\* The axes CheckSATCollision tests, in test order.
AllAxes(polyA, polyB) ==
    GetUniqueAxes(polyA.worldVertices) \o GetUniqueAxes(polyB.worldVertices)

Proj(axis, p) == ProjectPolygon(axis, p.worldVertices)

\* The projection intervals on the axis are disjoint.
DisjointOn(axis, polyA, polyB) ==
    \/ Proj(axis, polyA).max < Proj(axis, polyB).min
    \/ Proj(axis, polyB).max < Proj(axis, polyA).min

\* The projection intervals on the axis are more than 1e-3 apart.
ApartOn(axis, polyA, polyB) ==
    \/ Proj(axis, polyA).max < Proj(axis, polyB).min - Tol
    \/ Proj(axis, polyB).max < Proj(axis, polyA).min - Tol

OverlapOn(axis, polyA, polyB) ==
    GetOverlap(Proj(axis, polyA).min, Proj(axis, polyA).max,
               Proj(axis, polyB).min, Proj(axis, polyB).max)

BothNonEmpty == PolyA.worldVertices # << >> /\ PolyB.worldVertices # << >>

\* C3 as claimed -- two non-empty polygons whose projections are disjoint on
\* an axis of either polygon are reported as not colliding.
C3_DisjointNeverCollide ==
    (SatCalled /\ BothNonEmpty) =>
        ((\E k \in 1 .. Len(AllAxes(PolyA, PolyB)) :
              DisjointOn(AllAxes(PolyA, PolyB)[k], PolyA, PolyB))
         => ~satLog.hit)

\* C3 amended -- two non-empty polygons whose projections are more than the
\* 1e-3 tolerance apart on an axis of either polygon are reported as not
\* colliding.
C3_ApartNeverCollide ==
    (SatCalled /\ BothNonEmpty) =>
        ((\E k \in 1 .. Len(AllAxes(PolyA, PolyB)) :
              ApartOn(AllAxes(PolyA, PolyB)[k], PolyA, PolyB))
         => ~satLog.hit)

\* A check of two polygons that only an axis of polyB separates.
C3_Witness ==
    /\ SatCalled /\ BothNonEmpty /\ ~satLog.hit
    /\ \E k \in 1 .. Len(GetUniqueAxes(PolyB.worldVertices)) :
          ApartOn(GetUniqueAxes(PolyB.worldVertices)[k], PolyA, PolyB)
    /\ \A k \in 1 .. Len(GetUniqueAxes(PolyA.worldVertices)) :
          ~ApartOn(GetUniqueAxes(PolyA.worldVertices)[k], PolyA, PolyB)

\* C4 as claimed -- whenever CheckSATCollision returns true, mtv is a vector
\* whose dot product with (polyB.worldCenter - polyA.worldCenter) is >= 0.
C4_MtvPointsToB ==
    SatHit =>
        /\ outMtv.finite
        /\ DotRaw(outMtv, Vector2Subtract(PolyB.worldCenter, PolyA.worldCenter)) >= 0

\* polyB with every world vertex translated by d.
Moved(p, d) ==
    [p EXCEPT !.worldVertices =
        [k \in 1 .. Len(p.worldVertices) |-> Vector2Add(p.worldVertices[k], Vec(d.x, d.y))]]

\* C5 as claimed, on the collisions whose mtv is a number -- whenever
\* CheckSATCollision returns true, translating every world vertex of polyB by
\* mtv leaves no overlap of the two projections on the MTV axis.
C5_MtvSeparates ==
    (SatHit /\ outMtv.finite) =>
        OverlapOn(OrientedAxis(PolyA, PolyB), PolyA, Moved(PolyB, outMtv)) = 0

\* The same restricted to the case the claim names: on the MTV axis the
\* projection of one polygon lies strictly inside the other's.
C5_InsideCase ==
    (SatHit /\ outMtv.finite) =>
        LET a == Proj(OrientedAxis(PolyA, PolyB), PolyA)
            b == Proj(OrientedAxis(PolyA, PolyB), PolyB)
        IN  (a.min < b.min /\ b.max < a.max) =>
                OverlapOn(OrientedAxis(PolyA, PolyB), PolyA, Moved(PolyB, outMtv)) = 0

\* The overlaps on the tested axes, in test order.
Overlaps2(polyA, polyB) ==
    [k \in 1 .. Len(AllAxes(polyA, polyB)) |-> OverlapOn(AllAxes(polyA, polyB)[k], polyA, polyB)]

MinOf(S) == CHOOSE m \in S : \A x \in S : m <= x

\* C6 as claimed -- whenever CheckSATCollision returns true, mtv is the first
\* axis (polyA's before polyB's) that attains the minimum overlap, or its
\* opposite, scaled by that minimum, and the length of mtv is that minimum.
C6_MtvMinimal ==
    SatHit =>
        /\ outMtv.finite
        /\ AllAxes(PolyA, PolyB) # << >>
        /\ LET ov == Overlaps2(PolyA, PolyB)
               m == MinOf(Range(ov))
               first == MinOf({ k \in 1 .. Len(ov) : ov[k] = m })
               ax == AllAxes(PolyA, PolyB)[first]
               plus == Vector2Scale(ax, m)
               minus == Vector2Scale(Vector2Negate(ax), m)
               len2 == outMtv.x * outMtv.x + outMtv.y * outMtv.y
           IN  /\ Vec(outMtv.x, outMtv.y) \in {plus, minus}
               /\ (IF m > 0 THEN (m - 1) * (m - 1) ELSE 0) <= len2
               /\ len2 <= (m + 1) * (m + 1)

\* The polygon is the axis-aligned square of side 10 centred on (cx, cy).
IsSquare10At(p, cx, cy) ==
    /\ Len(p.worldVertices) = 4
    /\ Range(p.worldVertices) =
          { Vec(cx + dx, cy + dy) : dx \in {-5 * Unit, 5 * Unit}, dy \in {-5 * Unit, 5 * Unit} }

\* C7 -- squares scenario: axis-aligned squares of side 10 centred on (0,0) and
\* (15,0) do not collide; centred on (0,0) and (8,0) they collide with an MTV of
\* length 2 parallel to the X axis.
C7_Squares ==
    (SatCalled /\ IsSquare10At(PolyA, 0, 0)) =>
        /\ IsSquare10At(PolyB, 15 * Unit, 0) => ~satLog.hit
        /\ IsSquare10At(PolyB, 8 * Unit, 0) =>
              /\ satLog.hit
              /\ outMtv.finite
              /\ outMtv.y = 0
              /\ Abs(outMtv.x) = 2 * Unit

\* The squares centred on (0,0) and (8,0) have been checked.
C7_Witness ==
    /\ SatCalled
    /\ IsSquare10At(PolyA, 0, 0)
    /\ IsSquare10At(PolyB, 8 * Unit, 0)
    /\ satLog.hit

\* C8 -- empty inputs never collide: CheckSATCollision returns false when either
\* polygon has no vertices, CheckShapesCollide returns false when either shape
\* has no polygons, and mtv keeps the content it had before the call.
C8_EmptyNeverCollide ==
    /\ (SatCalled /\ ~BothNonEmpty) =>
          (~satLog.hit /\ outMtv = satLog.mtvIn)
    /\ (satLog.op = "shapes" /\ (shpA = << >> \/ shpB = << >>)) =>
          (~satLog.hit /\ outMtv = satLog.mtvIn)

\* A polygon without vertices was checked against a polygon with vertices
\* whose projections contain 0 on each of its axes.
C8_Witness ==
    /\ SatCalled
    /\ PolyA.worldVertices = << >>
    /\ PolyB.worldVertices # << >>
    /\ \A k \in 1 .. Len(GetUniqueAxes(PolyB.worldVertices)) :
          LET pb == Proj(GetUniqueAxes(PolyB.worldVertices)[k], PolyB)
          IN  pb.min < 0 /\ 0 < pb.max
    /\ ~satLog.hit

\* C4 and C6 restricted to the collisions that retained an axis.
C4_FiniteCase ==
    (SatHit /\ outMtv.finite) =>
        DotRaw(outMtv, Vector2Subtract(PolyB.worldCenter, PolyA.worldCenter)) >= 0

C6_FiniteCase == (SatHit /\ outMtv.finite) => C6_MtvMinimal

---------------------------------------------------------------------------
(* Spec, SpecFrames: a World driven by spawn, update and teleport calls.   *)
(* SpecFrames leaves teleport out.                                         *)

MaxEntities == 2
MaxWorldOps == 2

\* Addresses the allocator can give to an Entity object.
Addresses == 1 .. MaxEntities

Kinds == {"BigShip", "BasicShip", "BLB63DreadNaught"}

\* Width and height of the texture each ship is constructed with.
TextureOf(kind) ==
    CASE kind = "BigShip" -> Vec(2 * Unit, 2 * Unit)
      [] kind = "BasicShip" -> Vec(4 * Unit, 4 * Unit)
      [] kind = "BLB63DreadNaught" -> Vec(4 * Unit, 6 * Unit)

\* Positions handed to spawn and teleport: two within reach of each other in
\* the first cell, one near the far corner of the world.
Positions == { Vec(2 * Unit, 2 * Unit), Vec(3 * Unit, 3 * Unit),
               Vec((WORLD_W - 1) * Unit, (WORLD_H - 1) * Unit) }

\* What one frame can make a ship do: nothing, or three units to the right
\* (heading 90 degrees) or down (heading 180 degrees).
Moves == { [step |-> Vec(0, 0), heading |-> 0],
           [step |-> Vec(3 * Unit, 0), heading |-> Deg90],
           [step |-> Vec(0, 3 * Unit), heading |-> 2 * Deg90] }

TheWorld ==
    [entities |-> entities, grid |-> grid, queries |-> queries, calls |-> calls,
     trace |-> trace]

SetWorld(w) ==
    /\ entities' = w.entities
    /\ grid' = w.grid
    /\ queries' = w.queries
    /\ calls' = w.calls
    /\ trace' = w.trace

InitWorld ==
    /\ IdleGrid
    /\ IdlePoly
    /\ IdleSat
    /\ IdleWorld

Spawn(kind, pos, addr) ==
    /\ Len(entities) < MaxEntities
    /\ \A i \in 1 .. Len(entities) : entities[i].addr # addr
    /\ SetWorld(spawn(TheWorld, kind, TextureOf(kind), pos, addr))
    /\ worldLog' = [op |-> "spawn", e |-> Len(entities) + 1, pos |-> pos]
    /\ UNCHANGED nWorldOps

Update(moves) ==
    /\ nWorldOps < MaxWorldOps
    /\ SetWorld(update(TheWorld, moves))
    /\ nWorldOps' = nWorldOps + 1
    /\ worldLog' = [op |-> "update", moves |-> moves, before |-> entities,
                    gridBefore |-> grid]

Teleport(e, newPos) ==
    /\ nWorldOps < MaxWorldOps
    /\ SetWorld(teleport(TheWorld, e, newPos))
    /\ worldLog' = [op |-> "teleport", e |-> e, pos |-> newPos,
                    before |-> entities[e], gridBefore |-> grid]
    /\ nWorldOps' = nWorldOps + 1

NextFrames ==
    /\ \/ \E kind \in Kinds, pos \in Positions, addr \in Addresses : Spawn(kind, pos, addr)
       \/ \E moves \in [1 .. Len(entities) -> Moves] : Update(moves)
    /\ UNCHANGED <<gridVars, polyVars, satVars, overlapVars>>

Next ==
    /\ \/ \E kind \in Kinds, pos \in Positions, addr \in Addresses : Spawn(kind, pos, addr)
       \/ \E moves \in [1 .. Len(entities) -> Moves] : Update(moves)
       \/ \E e \in 1 .. Len(entities), newPos \in Positions : Teleport(e, newPos)
    /\ UNCHANGED <<gridVars, polyVars, satVars, overlapVars>>

SpecFrames == InitWorld /\ [][NextFrames]_vars

Spec == InitWorld /\ [][Next]_vars

\* The rectangle of width size.x * scale and height size.y * scale centred on
\* the position of e.
SizeRectangle(e) ==
    LET w == FMul(e.size.x, e.scale)
        h == FMul(e.size.y, e.scale)
    IN  Rect(e.position.x - TruncDiv(w, 2), e.position.y - TruncDiv(h, 2), w, h)

\* C10 as claimed -- after spawn and any number of update frames, the overall
\* AABB of every entity whose shape has no polygons is the rectangle of its
\* scaled size centred on its current position.
C10_RectangleFallback ==
    \A i \in 1 .. Len(entities) :
        entities[i].shape = << >> => entities[i].overallAABB = SizeRectangle(entities[i])

\* The fallback itself, under Spec: right after teleport, whose setPosition runs
\* recalcOverallAABB, the entity with no polygons does have that rectangle.
C10_FallbackWhenRecalculated ==
    (worldLog.op = "teleport" /\ entities[worldLog.e].shape = << >>) =>
        entities[worldLog.e].overallAABB = SizeRectangle(entities[worldLog.e])

---------------------------------------------------------------------------
(* SpecOverlap: GetOverlap called on arbitrary pairs of intervals          *)

\* Interval ends handed to GetOverlap: -MaxEnd .. MaxEnd half units.
MaxEnd == 3
IntervalEnds == { k * (Unit \div 2) : k \in -MaxEnd .. MaxEnd }

InitOverlap ==
    /\ IdleGrid
    /\ IdlePoly
    /\ IdleSat
    /\ IdleWorld

GetOverlapCall(minA, maxA, minB, maxB) ==
    /\ minA <= maxA
    /\ minB <= maxB
    /\ overlapLog' = [op |-> "GetOverlap", minA |-> minA, maxA |-> maxA,
                      minB |-> minB, maxB |-> maxB,
                      result |-> GetOverlap(minA, maxA, minB, maxB)]

NextOverlap ==
    /\ \E minA, maxA, minB, maxB \in IntervalEnds : GetOverlapCall(minA, maxA, minB, maxB)
    /\ UNCHANGED <<gridVars, polyVars, satVars, worldVars>>

SpecOverlap == InitOverlap /\ [][NextOverlap]_vars

OverlapCalled == overlapLog.op = "GetOverlap"

\* The closed intervals [minA, maxA] and [minB, maxB] have a common point.
IntervalsMeet == overlapLog.minA <= overlapLog.maxB /\ overlapLog.minB <= overlapLog.maxA

\* Their common part has a positive length.
IntervalsShareLength ==
    Max2(overlapLog.minA, overlapLog.minB) < Min2(overlapLog.maxA, overlapLog.maxB)

---------------------------------------------------------------------------
(* World::update, step by step: properties of the trace of the last frame  *)

\* The positions in the trace of the steps of one kind.
Steps(kind) == { k \in 1 .. Len(trace) : trace[k].ev = kind }

\* The cells covered by a rectangle.
CellsOf(box) == Range(visitCells(box))

\* C12 as claimed -- at the moment of every grid.query of pass 2, each spawned
\* entity is stored in exactly the buckets of the cells covered by its current
\* overall AABB.
C12_MembershipMatchesAABB ==
    \A k \in Steps("queryBegin") :
        \A i \in 1 .. Len(trace[k].entities) :
            StoredIn(trace[k].grid, i) = CellsOf(trace[k].entities[i].overallAABB)

\* The CheckShapesCollide calls of the frame on the unordered pair {x, y}.
CallsOn(x, y) ==
    { k \in Steps("CheckShapesCollide") :
        {trace[k].a, trace[k].b} = {x, y} }

\* The broad phase reports x and y together: the query of one of them visits
\* the other.
ReportedTogether(x, y) ==
    \E k \in Steps("visit") : {trace[k].a, trace[k].e} = {x, y}

\* C13 as claimed -- within one update CheckShapesCollide is invoked exactly
\* once for every unordered pair of distinct alive, collidable entities that
\* the broad phase reports together.
C13_EachPairOnce ==
    \A x, y \in 1 .. Len(entities) :
        (x < y /\ isAliveAndCollidable(entities[x]) /\ isAliveAndCollidable(entities[y])
               /\ ReportedTogether(x, y))
            => Cardinality(CallsOn(x, y)) = 1

\* The two halves of C13: never more than once, and at least once.
C13_NeverTwice ==
    \A x, y \in 1 .. Len(entities) : x < y => Cardinality(CallsOn(x, y)) <= 1

C13_AtLeastOnce ==
    \A x, y \in 1 .. Len(entities) :
        (x < y /\ ReportedTogether(x, y)) => Cardinality(CallsOn(x, y)) >= 1

\* The positions in the trace at which shape.updateWorldVertices is invoked
\* for entity i.
ShapeUpdates(i) ==
    { k \in Steps("updateWorldVertices") : trace[k].e = i }

\* The positions in the trace of the CheckShapesCollide calls involving i.
CollideCalls(i) ==
    { k \in Steps("CheckShapesCollide") : i \in {trace[k].a, trace[k].b} }

\* The last operation was World::update, so trace is the trace of a frame in
\* which every entity of the world took part.
FrameDone == worldLog.op = "update"

\* C14 as claimed -- during one update, updateWorldVertices is invoked exactly
\* once for each alive, collidable entity, and that invocation precedes every
\* CheckShapesCollide call involving the entity.  (CheckShapesCollide and
\* CheckSATCollision themselves make no such call: they are operators on the
\* shapes and add no event.)
C14_OncePerEntityBeforeCollide ==
    FrameDone =>
        \A i \in 1 .. Len(entities) :
            isAliveAndCollidable(entities[i]) =>
                /\ Cardinality(ShapeUpdates(i)) = 1
                /\ \A u \in ShapeUpdates(i) : \A c \in CollideCalls(i) : u < c

\* The parts of C14, separately.
C14_AtMostOnce ==
    FrameDone => \A i \in 1 .. Len(entities) : Cardinality(ShapeUpdates(i)) <= 1

C14_AtLeastOnce ==
    FrameDone => \A i \in 1 .. Len(entities) : Cardinality(ShapeUpdates(i)) >= 1

C14_BeforeCollide ==
    FrameDone =>
        \A i \in 1 .. Len(entities) :
            \A u \in ShapeUpdates(i) : \A c \in CollideCalls(i) : u < c

\* The overall AABBs of two entities overlap (half-open rectangles, as the
\* grid's cell cover reads them; rectangles of no area overlap nothing).
AABBsOverlap(p, q) ==
    /\ p.width > 0 /\ p.height > 0 /\ q.width > 0 /\ q.height > 0
    /\ p.x < q.x + q.width /\ q.x < p.x + p.width
    /\ p.y < q.y + q.height /\ q.y < p.y + p.height

\* The entities as pass 2 found them: those recorded when the first query
\* of the frame began.
AtSecondPass == trace[CHOOSE k \in Steps("queryBegin") :
                          \A j \in Steps("queryBegin") : k <= j].entities

\* C15 as claimed -- no missed pair: every two distinct alive, collidable
\* entities whose overall AABBs overlap when pass 2 begins get a
\* CheckShapesCollide call in that frame.
C15_NoMissedPair ==
    (FrameDone /\ Steps("queryBegin") # {}) =>
        \A x, y \in 1 .. Len(entities) :
            (x < y /\ isAliveAndCollidable(AtSecondPass[x])
                   /\ isAliveAndCollidable(AtSecondPass[y])
                   /\ AABBsOverlap(AtSecondPass[x].overallAABB, AtSecondPass[y].overallAABB))
                => CallsOn(x, y) # {}

\* C16 as claimed -- pass 1, cell change: when the cell key after the update
\* and clamp differs from the key recorded before, the entity ends up stored
\* in the cells of its new AABB and in no cell that only the AABB it had
\* before the update covered.
C16_OldCellsLeft ==
    \A k \in Steps("firstPass") :
        trace[k].oldCell # trace[k].newCell =>
            /\ CellsOf(trace[k].newBox) \subseteq StoredIn(trace[k].grid, trace[k].e)
            /\ (CellsOf(trace[k].oldBox) \ CellsOf(trace[k].newBox))
                   \cap StoredIn(trace[k].grid, trace[k].e) = {}

\* What the code does instead: the rectangle handed to grid.remove is the old
\* one only in its size; keepInside has already moved it to the new position.
C16_RemoveGetsOldBox ==
    \A k \in Steps("firstPass") :
        trace[k].oldCell # trace[k].newCell => trace[k].removed = trace[k].oldBox

\* The derived data of e (world vertices and overall AABB) are the ones in r.
SameDerived(e, r) == r.shape = e.shape /\ r.overallAABB = e.overallAABB

\* The world vertices and overall AABB of e are current: recomputing them
\* from e's position, rotation and scale changes nothing.
Current(e) == SameDerived(e, recalcOverallAABB(e))

\* C17 as claimed -- whenever pass 2 reads an entity's overall AABB (for the
\* query) or its world vertices (in CheckShapesCollide), they are the
\* transform of its local vertices under its current position, rotation and
\* scale.
C17_DerivedDataCurrent ==
    /\ \A k \in Steps("queryBegin") : Current(trace[k].entities[trace[k].a])
    /\ \A k \in Steps("CheckShapesCollide") : Current(trace[k].A) /\ Current(trace[k].B)

\* C17 for the entities that carry a polygon (a BigShip has none, and its
\* overall AABB is never computed at all).
C17_PolygonsCurrent ==
    /\ \A k \in Steps("queryBegin") :
           trace[k].entities[trace[k].a].shape # << >>
               => Current(trace[k].entities[trace[k].a])
    /\ \A k \in Steps("CheckShapesCollide") :
           (trace[k].A.shape # << >> /\ trace[k].B.shape # << >>)
               => Current(trace[k].A) /\ Current(trace[k].B)

(***************************************************************************)
(* One frame of a world of three ships.                                    *)
(***************************************************************************)
MaxTrioFrames == 1

\* The ships that carry a polygon, the only ones a narrow phase can hit.
TrioKinds == {"BasicShip", "BLB63DreadNaught"}

\* The world after three spawn calls; the allocator hands out increasing
\* addresses.
Trio(kinds, ps) ==
    spawn(spawn(spawn([entities |-> << >>, grid |-> EmptyGrid, queries |-> << >>,
                       calls |-> << >>, trace |-> << >>],
                      kinds[1], TextureOf(kinds[1]), ps[1], 1),
                kinds[2], TextureOf(kinds[2]), ps[2], 2),
          kinds[3], TextureOf(kinds[3]), ps[3], 3)

WorldIs(w) ==
    /\ entities = w.entities
    /\ grid = w.grid
    /\ queries = w.queries
    /\ calls = w.calls
    /\ trace = w.trace

InitTrio ==
    /\ IdleGrid
    /\ IdlePoly
    /\ IdleSat
    /\ overlapLog = [op |-> "none"]
    /\ nWorldOps = 0
    /\ \E kinds \in [1 .. 3 -> TrioKinds], ps \in [1 .. 3 -> Positions] :
          /\ WorldIs(Trio(kinds, ps))
          /\ worldLog = [op |-> "spawn", e |-> 3, pos |-> ps[3]]

NextTrio ==
    /\ nWorldOps < MaxTrioFrames
    /\ \E moves \in [1 .. Len(entities) -> Moves] : Update(moves)
    /\ UNCHANGED <<gridVars, polyVars, satVars, overlapVars>>

SpecTrio == InitTrio /\ [][NextTrio]_vars

\* The CheckShapesCollide call that a resolution step at position k of the
\* trace answers: the last one before k.
CallBefore(k) ==
    CHOOSE c \in Steps("CheckShapesCollide") :
        c < k /\ \A d \in Steps("CheckShapesCollide") : d < k => d <= c

\* The resolution step ev, which answers a collision with vector mtv, moves
\* A back by half of mtv and B forward by it, and nobody else.
Displaced(ev, half) ==
    /\ ev.after[ev.a].position = Vector2Subtract(ev.before[ev.a].position, half)
    /\ ev.after[ev.b].position = Vector2Add(ev.before[ev.b].position, half)
    /\ Vector2Add(ev.after[ev.a].position, ev.after[ev.b].position)
           = Vector2Add(ev.before[ev.a].position, ev.before[ev.b].position)
    /\ \A j \in 1 .. Len(ev.before) :
           j \notin {ev.a, ev.b} => ev.after[j].position = ev.before[j].position

\* C18 -- resolution displacement: when CheckShapesCollide(A.shape, B.shape,
\* mtv) reports a collision in pass 2, A's position becomes A.position - mtv/2
\* and B's becomes B.position + mtv/2, the sum of the two positions is
\* unchanged, and no other entity's position changes in that step.
C18_ResolutionDisplacement ==
    \A k \in Steps("resolve") :
        /\ trace[CallBefore(k)].hit
        /\ {trace[CallBefore(k)].a, trace[CallBefore(k)].b} = {trace[k].a, trace[k].b}
        /\ Displaced(trace[k], Vector2Scale(trace[CallBefore(k)].mtv, Unit \div 2))

\* A resolution with a vector that is not zero, in a world with a third ship.
C18_Witness ==
    \E k \in Steps("resolve") :
        /\ Len(trace[k].before) = 3
        /\ trace[k].half # Vec(0, 0)
        /\ trace[k].after[trace[k].a].position # trace[k].before[trace[k].a].position

\* C19 as claimed -- re-sync of A: after every resolution step in pass 2, A
\* is stored in exactly the buckets of the cells that its new overall AABB
\* covers.
C19_ResyncOfA ==
    \A k \in Steps("resolve") :
        StoredIn(trace[k].grid, trace[k].a)
            = CellsOf(trace[k].after[trace[k].a].overallAABB)

\* C19 for the first resolution step that A takes in a pass whose query found
\* A stored in exactly the cells of its AABB.
FirstResolveOf(k) ==
    \A j \in Steps("resolve") : (j < k /\ trace[j].a = trace[k].a) => 
        \E q \in Steps("queryBegin") : j < q /\ q < k /\ trace[q].a = trace[k].a

QueryBefore(k) ==
    CHOOSE q \in Steps("queryBegin") :
        q < k /\ \A r \in Steps("queryBegin") : r < k => r <= q

C19_FirstResyncFromCleanGrid ==
    \A k \in Steps("resolve") :
        (/\ FirstResolveOf(k)
         /\ StoredIn(trace[QueryBefore(k)].grid, trace[k].a)
                = CellsOf(trace[QueryBefore(k)].area))
            => StoredIn(trace[k].grid, trace[k].a)
                   = CellsOf(trace[k].after[trace[k].a].overallAABB)

\* Position k of the trace lies inside a grid.query: a query has begun before
\* k and has not yet returned.
InsideQuery(k) ==
    \E q \in Steps("queryBegin") :
        q < k /\ \A r \in Steps("queryEnd") : ~(q < r /\ r < k)

\* C20 -- no mutation during a query: no grid insert or remove executes while
\* a grid.query is visiting buckets, and the narrow phase of A (its
\* CheckShapesCollide calls and resolutions) runs only after the query of A
\* has returned with all its candidates.
C20_NoMutationDuringQuery ==
    /\ \A k \in Steps("remove") \cup Steps("insert") : ~InsideQuery(k)
    /\ \A k \in Steps("CheckShapesCollide") \cup Steps("resolve") : ~InsideQuery(k)
    /\ \A k \in Steps("visit") : InsideQuery(k)

\* A query of A has returned and a resolution of A then changes the grid in
\* a cell that the query visited.
C20_Witness ==
    \E q \in Steps("queryBegin"), k \in Steps("remove") :
        /\ q < k
        /\ trace[k].e = trace[q].a
        /\ \A r \in Steps("queryBegin") : r <= q \/ k < r
        /\ CellsOf(trace[k].box) \cap CellsOf(trace[q].area) # {}

(***************************************************************************)
(* One frame of a world of two ships whose isAlive and isCollidable flags  *)
(* can be cleared.  Nothing in this repository clears them; they are       *)
(* protected members that a derived class may write, and World::update     *)
(* reads them through isAliveAndCollidable().                              *)
(***************************************************************************)
MaxRetireFrames == 1

\* The world after two spawn calls.
Duo(kinds, ps) ==
    spawn(spawn([entities |-> << >>, grid |-> EmptyGrid, queries |-> << >>,
                 calls |-> << >>, trace |-> << >>],
                kinds[1], TextureOf(kinds[1]), ps[1], 1),
          kinds[2], TextureOf(kinds[2]), ps[2], 2)

InitDuo ==
    /\ IdleGrid
    /\ IdlePoly
    /\ IdleSat
    /\ overlapLog = [op |-> "none"]
    /\ nWorldOps = 0
    /\ \E kinds \in [1 .. 2 -> Kinds], ps \in [1 .. 2 -> Positions] :
          /\ WorldIs(Duo(kinds, ps))
          /\ worldLog = [op |-> "spawn", e |-> 2, pos |-> ps[2]]

\* A derived class clears isAlive of entities[e].
Die(e) ==
    /\ entities[e].isAlive
    /\ entities' = [entities EXCEPT ![e].isAlive = FALSE]
    /\ worldLog' = [op |-> "die", e |-> e]
    /\ UNCHANGED <<grid, queries, calls, trace, nWorldOps>>

\* A derived class clears isCollidable of entities[e].
Ghost(e) ==
    /\ entities[e].isCollidable
    /\ entities' = [entities EXCEPT ![e].isCollidable = FALSE]
    /\ worldLog' = [op |-> "ghost", e |-> e]
    /\ UNCHANGED <<grid, queries, calls, trace, nWorldOps>>

RetireFrame(moves) ==
    /\ nWorldOps < MaxRetireFrames
    /\ Update(moves)

NextRetire ==
    /\ \/ \E e \in 1 .. Len(entities) : Die(e)
       \/ \E e \in 1 .. Len(entities) : Ghost(e)
       \/ \E moves \in [1 .. Len(entities) -> Moves] : RetireFrame(moves)
    /\ UNCHANGED <<gridVars, polyVars, satVars, overlapVars>>

SpecRetire == InitDuo /\ [][NextRetire]_vars

\* The entities that World::update found excluded: those whose
\* isAliveAndCollidable() was false when the frame began.
Excluded == { i \in 1 .. Len(entities) : ~isAliveAndCollidable(worldLog.before[i]) }

\* The positions of the trace at which entity i is touched: updated or moved
\* in the grid by pass 1, its query run, tested or resolved in pass 2.
Touches(i) ==
    { k \in 1 .. Len(trace) :
        \/ /\ trace[k].ev \in {"updateWorldVertices", "firstPass", "remove", "insert"}
           /\ trace[k].e = i
        \/ /\ trace[k].ev \in {"queryBegin", "CheckShapesCollide", "resolve"}
           /\ i \in {trace[k].a} \cup (IF trace[k].ev = "queryBegin" THEN {} ELSE {trace[k].b}) }

\* C21 -- dead or non-collidable entities are excluded: World::update never
\* updates, clamps, tests or moves an entity whose isAliveAndCollidable() is
\* false, so the entity is the same after the frame as before it (position,
\* world vertices, overall AABB and all), also when it is stored in buckets
\* that a query visits.
C21_ExcludedUntouched ==
    FrameDone =>
        \A i \in Excluded :
            /\ Touches(i) = {}
            /\ entities[i] = worldLog.before[i]

\* An excluded ship is visited by the query of the other ship, whose world
\* vertices collide with the excluded ship's.
C21_Witness ==
    /\ FrameDone
    /\ \E i \in Excluded :
          \E k \in Steps("visit") :
              /\ trace[k].e = i
              /\ trace[k].a # i
              /\ CheckShapesCollide(entities[trace[k].a].shape, entities[i].shape,
                                    UninitialisedMtv).hit

(***************************************************************************)
(* Frames of a world of two ships that do not move on their own.           *)
(***************************************************************************)
\* The move of a ship whose update leaves position, rotation and scale alone.
Stay == [step |-> Vec(0, 0), heading |-> 0]

\* The count of updateWorldVertices calls is bookkeeping of a single frame;
\* it starts from 0 in each frame here, so that frames can go on for ever.
FromZero(es) == [i \in 1 .. Len(es) |-> [es[i] EXCEPT !.nShapeUpdates = 0]]

StillFrame ==
    /\ SetWorld(update([TheWorld EXCEPT !.entities = FromZero(entities)],
                       [i \in 1 .. Len(entities) |-> Stay]))
    /\ worldLog' = [op |-> "update", moves |-> [i \in 1 .. Len(entities) |-> Stay],
                    before |-> FromZero(entities), gridBefore |-> grid]
    /\ UNCHANGED nWorldOps

NextStill ==
    /\ StillFrame
    /\ UNCHANGED <<gridVars, polyVars, satVars, overlapVars>>

SpecStill == InitDuo /\ [][NextStill]_vars /\ WF_vars(NextStill)

\* The polygons of e where e is now: its local vertices under its current
\* position, rotation and scale.
ShapeNow(e) == updateWorldVertices(e.shape, e.position, e.rotation, e.scale)

\* What CheckShapesCollide answers for the two ships where they are now.
Contact(x, y) ==
    CheckShapesCollide(ShapeNow(entities[x]), ShapeNow(entities[y]), UninitialisedMtv)

\* The answer r of CheckShapesCollide is a penetration: a collision whose
\* half vector, the correction of a resolution step, is not zero.
Penetrates(r) == r.hit /\ Vector2Scale(r.mtv, Unit \div 2) # Vec(0, 0)

NoPenetration ==
    \A x, y \in 1 .. Len(entities) :
        (x < y /\ isAliveAndCollidable(entities[x]) /\ isAliveAndCollidable(entities[y]))
            => ~Penetrates(Contact(x, y))

\* The frame that has just run changed nothing: neither a ship (the count of
\* updateWorldVertices calls apart) nor the grid.  World::update is a function
\* of the ships and the grid, so every later frame changes nothing either.
Settled ==
    /\ FrameDone
    /\ FromZero(entities) = worldLog.before
    /\ grid = worldLog.gridBefore

\* C22 as claimed -- residual penetration resolves: when no ship moves on its
\* own, after finitely many frames no two alive, collidable ships penetrate.
\* Frames that change nothing any more must then have left no penetration.
C22_SettledMeansResolved == Settled => NoPenetration

\* The same entities under the other assignment of addresses: the order of
\* the addresses is reversed, creation order and everything else kept.
Readdressed(es) ==
    [i \in 1 .. Len(es) |-> [es[i] EXCEPT !.addr = (MaxEntities + 1) - @]]

\* What a frame leaves of the world: the positions and the bucket contents.
Outcome(es, g) == << [i \in 1 .. Len(es) |-> es[i].position], g >>

OutcomeOf(w) == Outcome(w.entities, w.grid)

\* The frame that has just run, run again from the same world with the
\* addresses reversed.
Rerun ==
    update([entities |-> Readdressed(worldLog.before), grid |-> worldLog.gridBefore,
            queries |-> << >>, calls |-> << >>, trace |-> << >>],
           worldLog.moves)

\* C23 as claimed -- reproducibility: for the same entity states and creation
\* order, the positions and the bucket contents after World::update are the
\* same for every assignment of memory addresses to the entities.
C23_SameForEveryAddressOrder ==
    FrameDone => OutcomeOf(Rerun) = Outcome(entities, grid)

(***************************************************************************)
(* UniformGrid::visitCells on any rectangle of non-negative size.  A       *)
(* coordinate is a float: either a value in 1/Unit, or a float so large    *)
(* (+infinity included) that its quotient by cs is beyond the range of     *)
(* int.  Converting such a quotient to int is undefined; the builds differ *)
(* in what the conversion instruction leaves: the "integer indefinite"     *)
(* value INT_MIN (x86 cvttss2si), or the saturated INT_MAX (ARM fcvtzs).   *)
(***************************************************************************)
INT_MAX == 2147483647
INT_MIN == -INT_MAX - 1

Float(n) == [huge |-> FALSE, v |-> n]
HugeFloat == [huge |-> TRUE, v |-> 0]

FloatAdd(a, b) == IF a.huge \/ b.huge THEN HugeFloat ELSE Float(a.v + b.v)

Conversions == {"indefinite", "saturating"}

\* int(f / cs) for any float f, on a build with conversion conv.
IntOf(f, conv) ==
    IF f.huge THEN (IF conv = "indefinite" THEN INT_MIN ELSE INT_MAX)
    ELSE CellOf(f.v)

\* visitCells on the rectangle with corner (x, y), width w and height h.
visitCellsAny(x, y, w, h, conv) ==
    CellLoop(IntOf(x, conv), IntOf(y, conv),
             IntOf(FloatAdd(x, w), conv), IntOf(FloatAdd(y, h), conv))

\* Corners: far outside on the negative side, fractional negative, the
\* origin, inside, in the last column and row, on and past the far edge, and
\* beyond the range of int.
CornerXs == { Float(-9 * Unit), Float(-(Unit \div 2)), Float(0), Float(3 * Unit),
              Float((WORLD_W - 1) * Unit), Float(WORLD_W * Unit),
              Float((WORLD_W + 2) * Unit), HugeFloat }
CornerYs == { Float(-9 * Unit), Float(-(Unit \div 2)), Float(0), Float(3 * Unit),
              Float((WORLD_H - 1) * Unit), Float(WORLD_H * Unit),
              Float((WORLD_H + 2) * Unit), HugeFloat }
\* Sizes: none, within a cell, across cells, past the world, beyond int.
Sizes == { Float(0), Float(1 * Unit), Float(5 * Unit),
           Float((WORLD_W + 8) * Unit), HugeFloat }

\* visitCells is const and reads only the rectangle: one call from the empty
\* grid shows all it can do.
VisitCells(x, y, w, h, conv) ==
    /\ gridLog.op = "none"
    /\ gridLog' = [op |-> "visitCells", e |-> 0,
                   box |-> Rect(x, y, w, h), conv |-> conv,
                   visited |-> visitCellsAny(x, y, w, h, conv)]
    /\ UNCHANGED <<buckets, live, trip, nOps>>

NextCells ==
    /\ UNCHANGED <<polyVars, satVars, worldVars, overlapVars>>
    /\ \E x \in CornerXs, y \in CornerYs, w \in Sizes, h \in Sizes, conv \in Conversions :
          VisitCells(x, y, w, h, conv)

SpecCells == InitGrid /\ [][NextCells]_vars

CellsVisited == gridLog.op = "visitCells"

\* All four numbers of the rectangle are ordinary: their quotients by cs are
\* in the range of int.
OrdinaryBox(r) == ~r.x.huge /\ ~r.y.huge /\ ~r.width.huge /\ ~r.height.huge

\* C24 as claimed -- bucket index safety: for every rectangle with
\* non-negative width and height, every bucket index that visitCells produces
\* lies in [0, cols*rows) and at least one cell is visited.
C24_IndicesInRangeAndSomeCell ==
    CellsVisited =>
        /\ \A k \in 1 .. Len(gridLog.visited) : gridLog.visited[k] \in Cells
        /\ gridLog.visited # << >>

\* The two halves of C24: the indices are in range for every rectangle; a
\* cell is visited for every rectangle whose numbers are ordinary, and the
\* model's own visitCells agrees with visitCellsAny on those.
C24_IndicesInRange ==
    CellsVisited => \A k \in 1 .. Len(gridLog.visited) : gridLog.visited[k] \in Cells

C24_OrdinaryBoxesVisitSomeCell ==
    (CellsVisited /\ OrdinaryBox(gridLog.box)) =>
        /\ gridLog.visited # << >>
        /\ gridLog.visited = visitCells(Rect(gridLog.box.x.v, gridLog.box.y.v,
                                            gridLog.box.width.v, gridLog.box.height.v))

\* The sequence v names nothing twice.
NoRepeat(v) == \A i, j \in 1 .. Len(v) : v[i] = v[j] => i = j

\* C25 as claimed -- no duplicate entries: after any sequence of spawn, update
\* and teleport, no grid bucket contains the same entity more than once.
C25_NoDuplicateEntries == \A c \in Cells : NoRepeat(grid[c])

\* The point p lies in the world rectangle [0, WORLD_W] x [0, WORLD_H].
InsideWorld(p) ==
    /\ 0 <= p.x /\ p.x <= WORLD_W * Unit
    /\ 0 <= p.y /\ p.y <= WORLD_H * Unit

\* C26 as claimed -- world bounds: at the end of every World::update the
\* position of every alive, collidable entity lies inside the world rectangle
\* [0, WORLD_W] x [0, WORLD_H], also after the corrections of pass 2.
C26_PositionsInsideWorld ==
    FrameDone =>
        \A i \in 1 .. Len(entities) :
            isAliveAndCollidable(entities[i]) => InsideWorld(entities[i].position)

\* C27 as claimed -- finite MTV: whenever CheckSATCollision returns true for
\* two polygons with non-empty world vertices, at least one axis was tested
\* and the returned mtv is a finite vector, never the zero axis scaled by the
\* initial infinite overlap.
C27_FiniteMtv ==
    (SatHit /\ PolyA.worldVertices # << >> /\ PolyB.worldVertices # << >>) =>
        /\ AllAxes(PolyA, PolyB) # << >>
        /\ outMtv.finite

\* C27 for polygons of which at least one has an edge (two vertices or more).
C27_FiniteWithAnEdge ==
    (SatHit /\ (Len(PolyA.worldVertices) >= 2 \/ Len(PolyB.worldVertices) >= 2)) =>
        /\ AllAxes(PolyA, PolyB) # << >>
        /\ outMtv.finite

\* C28 as claimed -- spawn registration: immediately after World::spawn, the
\* new entity is stored in exactly the buckets of the cells that its overall
\* AABB covers.
C28_SpawnedUnderAABB ==
    worldLog.op = "spawn" =>
        StoredIn(grid, worldLog.e) = CellsOf(entities[worldLog.e].overallAABB)

\* What spawn does: the new entity is stored in the cells of its collision
\* box, whatever the constructor left there.
C28_SpawnedUnderCollisionBox ==
    worldLog.op = "spawn" =>
        StoredIn(grid, worldLog.e) = CellsOf(entities[worldLog.e].collisionBox)

\* The last operation was World::teleport.
Teleported == worldLog.op = "teleport"

\* After a teleport the entity is stored in the cells of newBox and in no
\* cell that only oldBox covered.
Rehomed(oldBox, newBox) ==
    /\ CellsOf(newBox) \subseteq StoredIn(grid, worldLog.e)
    /\ (CellsOf(oldBox) \ CellsOf(newBox)) \cap StoredIn(grid, worldLog.e) = {}

\* C29 as claimed -- teleport: after World::teleport(e, newPos), e is stored
\* in the buckets of the cells that cover its bounding box at newPos and in
\* no bucket that covered only its bounding box at the old position.  The
\* bounding box is read either as the overall AABB or as the collision box
\* (the rectangle of the entity's size centred on its position).
C29_TeleportRehomes ==
    Teleported =>
        \/ Rehomed(recalcOverallAABB(worldLog.before).overallAABB,
                   recalcOverallAABB(entities[worldLog.e]).overallAABB)
        \/ Rehomed(recalcCollision(worldLog.before).collisionBox,
                   recalcCollision(entities[worldLog.e]).collisionBox)

\* What teleport does: the entity is inserted again under the collision box
\* it had before, which setPosition does not recompute.
C29_CollisionBoxKept ==
    Teleported => entities[worldLog.e].collisionBox = worldLog.before.collisionBox

\* C30 -- never lost from the grid: once spawned, an entity is stored in at
\* least one bucket after every update and every teleport.
C30_NeverLost ==
    \A e \in 1 .. Len(entities) : StoredIn(grid, e) # {}

\* A frame has just moved an entity to other cells of the grid.
C30_Witness ==
    /\ FrameDone
    /\ \E e \in 1 .. Len(entities) :
          /\ StoredIn(worldLog.gridBefore, e) # {}
          /\ StoredIn(grid, e) # StoredIn(worldLog.gridBefore, e)
          /\ StoredIn(grid, e) # {}

=============================================================================
